---- MODULE Spec2Model ----
(***************************************************************************)
(* A model of src/script.py: the CallAnalyzer class (pattern library,      *)
(* detect_verification, analyze_silence_overtalk, analyze_call and the     *)
(* batch runner analyze_calls_from_json_directory).                        *)
(*                                                                         *)
(* Texts.  A Python string is modelled as the sequence of its whitespace   *)
(* separated tokens (the string is the tokens joined by single spaces).    *)
(* The tokens come from a fixed vocabulary; every token is either a run of *)
(* letters or digit groups joined by one separator character.  The regular *)
(* expressions of the source are modelled by what they match on such token *)
(* sequences; character windows (.{0,30}, .{0,20}) are computed from the   *)
(* character lengths of the tokens.                                        *)
(*                                                                         *)
(* JSON values.  A field of an utterance is a tagged value: a number, a    *)
(* string, null, or Missing (the key is absent from the dict).             *)
(***************************************************************************)
EXTENDS Integers, Sequences, FiniteSets, TLC

VARIABLES conversation, pc, idx, verification_done, result,
          directory, pos, batch_results, self_results, call_log

vars == <<conversation, pc, idx, verification_done, result,
          directory, pos, batch_results, self_results, call_log>>

---------------------------------------------------------------------------
(* Bounds of the model *)

\* longest conversation of the compliance specification
MaxUtter == 2
\* largest time stamp of the timing specification
MaxTime == 4
\* longest conversation of the timing specification
MaxIv == 3
\* most files in the directory of the batch specification
MaxFiles == 2
\* most direct calls of analyze_call in the repeated-call specification
MaxCalls == 3

---------------------------------------------------------------------------
(* JSON values *)

JNum(n) == [tag |-> "num", num |-> n, toks |-> <<>>]
JStr(t) == [tag |-> "str", num |-> 0, toks |-> t]
JNull == [tag |-> "null", num |-> 0, toks |-> <<>>]
Missing == [tag |-> "missing", num |-> 0, toks |-> <<>>]

\* isinstance(text, str)
IsStr(v) == v.tag = "str"

\* the outcome of a call: a returned value or a raised exception
Returned(v) == [raised |-> "", value |-> v]
Raised(e) == [raised |-> e, value |-> [none |-> TRUE]]
NotCalled == [raised |-> "not called", value |-> [none |-> TRUE]]

---------------------------------------------------------------------------
(* Lexical structure of the vocabulary *)

\* str.lower() on one token
Lower(w) ==
  CASE w = "Damn" -> "damn"
    [] w = "Damnit" -> "damnit"
    [] w = "Main" -> "main"
    [] w = "St" -> "st"
    [] w = "Springfield" -> "springfield"
    [] w = "IL" -> "il"
    [] w = "Agent" -> "agent"
    [] w = "Customer" -> "customer"
    [] OTHER -> w

\* str.lower() on a text
LowerText(toks) == [i \in DOMAIN toks |-> Lower(toks[i])]

\* the lengths of the digit groups of a token (<<>> for a token of letters)
Groups(w) ==
  CASE w = "123-45-6789" -> <<3, 2, 4>>
    [] w = "123456789" -> <<9>>
    [] w = "01/02/1990" -> <<2, 2, 4>>
    [] w = "1234-5678-9012-3456" -> <<4, 4, 4, 4>>
    [] w = "555-123-4567" -> <<3, 3, 4>>
    [] w = "500" -> <<3>>
    [] w = "12" -> <<2>>
    [] w = "62704" -> <<5>>
    [] OTHER -> <<>>

\* the numeric values of the digit groups of a token
Vals(w) ==
  CASE w = "123-45-6789" -> <<123, 45, 6789>>
    [] w = "123456789" -> <<123456789>>
    [] w = "01/02/1990" -> <<1, 2, 1990>>
    [] w = "1234-5678-9012-3456" -> <<1234, 5678, 9012, 3456>>
    [] w = "555-123-4567" -> <<555, 123, 4567>>
    [] w = "500" -> <<500>>
    [] w = "12" -> <<12>>
    [] w = "62704" -> <<62704>>
    [] OTHER -> <<>>

\* the character that joins the digit groups of a token ("" when one group)
Sep(w) ==
  CASE w \in {"123-45-6789", "1234-5678-9012-3456", "555-123-4567"} -> "-"
    [] w = "01/02/1990" -> "/"
    [] OTHER -> ""

\* \d+ : the token is one run of digits
IsDigits(w) == Len(Groups(w)) = 1
\* the token holds a digit
HasDigit(w) == Len(Groups(w)) >= 1
\* [A-Za-z]+ : the token is a run of letters
IsAlpha(w) == Len(Groups(w)) = 0
\* [A-Z]{2} : two upper-case letters
IsUpperPair(w) == w \in {"IL"}

RECURSIVE SumLen(_, _, _)
\* the characters of tokens a..b of toks
SumLen(toks, a, b) == IF a > b THEN 0 ELSE Len(toks[a]) + SumLen(toks, a + 1, b)

\* the number of characters between the end of token i and the start of
\* token j (i < j): the tokens between them and the single spaces
Gap(toks, i, j) == SumLen(toks, i + 1, j - 1) + (j - i)

---------------------------------------------------------------------------
(* Pattern library: CallAnalyzer.__init__ *)

profanity_list ==
  {"damn", "hell", "shit", "fuck", "ass", "bitch", "crap", "piss",
   "dick", "bastard", "asshole", "bullshit", "cunt", "goddamn"}

\* the keys of sensitive_patterns, in the order of the dict
SensitiveLabels == <<"SSN", "DOB", "Account", "Balance", "Address", "Credit Card", "Phone">>

\* the keys of verification_patterns
VerificationKeys == {"DOB_verification", "Address_verification", "SSN_verification"}

\* .{0,30} of the verification patterns
VerifyWindow == 30
\* .{0,20} of the Balance pattern
BalanceWindow == 20

\* \b\d{3}[-]?\d{2}[-]?\d{4}\b
SSNAt(toks, i) ==
  /\ Sep(toks[i]) \in {"-", ""}
  /\ Groups(toks[i]) \in {<<3, 2, 4>>, <<5, 4>>, <<3, 6>>, <<9>>}

\* \b(0?[1-9]|1[0-2])[\/\-](0?[1-9]|[12][0-9]|3[01])[\/\-](19|20)?\d{2}\b
DOBAt(toks, i) ==
  LET g == Groups(toks[i])
      v == Vals(toks[i])
  IN /\ Len(g) = 3
     /\ Sep(toks[i]) \in {"/", "-"}
     /\ g[1] \in {1, 2} /\ v[1] \in 1..12
     /\ g[2] \in {1, 2} /\ v[2] \in 1..31
     /\ \/ g[3] = 2
        \/ g[3] = 4 /\ (v[3] \div 100) \in {19, 20}

\* \baccount\s?(?:number|#|no)?\s?[:#]?\s?\d{4,}\b
AccountAt(toks, i) ==
  LET LongDigits(w) == IsDigits(w) /\ Groups(w)[1] >= 4
  IN /\ toks[i] = "account"
     /\ \/ i + 1 <= Len(toks) /\ LongDigits(toks[i + 1])
        \/ /\ i + 2 <= Len(toks)
           /\ toks[i + 1] \in {"number", "no"}
           /\ LongDigits(toks[i + 2])

\* \b(?:balance|amount|owe|debt).{0,20}\$?\s?\d+(?:\.\d{2})?\b
\* (the optional \s takes the space before the digits)
BalanceAt(toks, i) ==
  /\ toks[i] \in {"balance", "amount", "owe", "debt"}
  /\ \E j \in (i + 1)..Len(toks) :
        HasDigit(toks[j]) /\ Gap(toks, i, j) - 1 <= BalanceWindow

\* \b\d+\s+([A-Za-z]+\s?)+,?\s*([A-Za-z]+\s?)+,?\s*[A-Z]{2}\s*\d{5}(-\d{4})?\b
AddressAt(toks, i) ==
  /\ IsDigits(toks[i])
  /\ \E k \in (i + 2)..(Len(toks) - 1) :
        /\ \A m \in (i + 1)..(k - 1) : IsAlpha(toks[m])
        /\ IsUpperPair(toks[k])
        /\ IsDigits(toks[k + 1]) /\ Groups(toks[k + 1])[1] = 5

\* \b(?:\d{4}[ -]?){3}\d{4}\b
CreditCardAt(toks, i) ==
  /\ Sep(toks[i]) \in {"-", ""}
  /\ Groups(toks[i]) \in {<<4, 4, 4, 4>>, <<16>>}

\* \b(\+\d{1,2}\s?)?\(?\d{3}\)?[\s.-]?\d{3}[\s.-]?\d{4}\b
PhoneAt(toks, i) ==
  /\ Sep(toks[i]) \in {"-", ".", ""}
  /\ Groups(toks[i]) \in {<<3, 3, 4>>, <<10>>}

\* sensitive_patterns[label] matches toks at token i
SensitiveAt(label, toks, i) ==
  CASE label = "SSN" -> SSNAt(toks, i)
    [] label = "DOB" -> DOBAt(toks, i)
    [] label = "Account" -> AccountAt(toks, i)
    [] label = "Balance" -> BalanceAt(toks, i)
    [] label = "Address" -> AddressAt(toks, i)
    [] label = "Credit Card" -> CreditCardAt(toks, i)
    [] label = "Phone" -> PhoneAt(toks, i)

\* pattern.search(text) for a sensitive pattern
SensitiveSearch(label, toks) == \E i \in DOMAIN toks : SensitiveAt(label, toks, i)

\* pattern.findall(text) for a sensitive pattern: the matches, each given by
\* the token it starts at (what re.findall keeps of a match, the whole match
\* or its groups, is not modelled)
SensitiveFindall(label, toks) ==
  LET At(i) == SensitiveAt(label, toks, i)
  IN SelectSeq([i \in 1..Len(toks) |-> i], At)

\* the tokens a verification pattern's category keyword may end at, when it
\* starts at token i: date\s+of\s+birth|dob|birthday, address|residence,
\* ssn|social security|social
KeywordEnds(key, toks, i) ==
  CASE key = "DOB_verification" ->
         {e \in {i} : toks[i] \in {"dob", "birthday"}}
         \cup {e \in {i + 2} : /\ i + 2 <= Len(toks)
                               /\ toks[i] = "date"
                               /\ toks[i + 1] = "of"
                               /\ toks[i + 2] = "birth"}
    [] key = "Address_verification" ->
         {e \in {i} : toks[i] \in {"address", "residence"}}
    [] key = "SSN_verification" ->
         {e \in {i} : toks[i] \in {"ssn", "social"}}
         \cup {e \in {i + 1} : /\ i + 1 <= Len(toks)
                               /\ toks[i] = "social"
                               /\ toks[i + 1] = "security"}

\* pattern.search(text) for a verification pattern:
\* \b(?:keyword).{0,30}(?:verify|confirm|check)
VerificationSearch(key, toks) ==
  \E i \in DOMAIN toks : \E e \in KeywordEnds(key, toks, i) :
     \E j \in (e + 1)..Len(toks) :
        /\ toks[j] \in {"verify", "confirm", "check"}
        /\ Gap(toks, e, j) <= VerifyWindow

---------------------------------------------------------------------------
(* The texts of the model *)

TextSSN == JStr(<<"my", "social", "security", "number", "is", "123-45-6789">>)
TextAskDOB == JStr(<<"can", "you", "confirm", "your", "date", "of", "birth">>)
TextVerifyDOB == JStr(<<"date", "of", "birth", "please", "confirm">>)
TextDOB == JStr(<<"it", "is", "01/02/1990">>)
TextCard == JStr(<<"card", "1234-5678-9012-3456">>)
TextVerifySSN == JStr(<<"ssn", "please", "verify">>)
TextSwear == JStr(<<"Damnit", "Damn">>)
TextAddress == JStr(<<"address", "please", "verify", "12", "Main", "St", "Springfield", "IL", "62704">>)
TextBalancePhone == JStr(<<"balance", "500", "call", "555-123-4567">>)
TextAccount == JStr(<<"account", "number", "123456789">>)
TextFarDOB == JStr(<<"dob", "Springfield", "Springfield", "Springfield", "confirm">>)

StringTexts ==
  {TextSSN, TextAskDOB, TextVerifyDOB, TextDOB, TextCard, TextVerifySSN,
   TextSwear, TextAddress, TextBalancePhone, TextAccount, TextFarDOB}

\* a text is a string, null (a non-string), or absent
Texts == StringTexts \cup {JNull, Missing}

Speakers == {"Agent", "Customer"}

\* an utterance (one dict of the parsed JSON list)
Utterance(speaker, text, stime, etime) ==
  [speaker |-> speaker, text |-> text, stime |-> stime, etime |-> etime]

---------------------------------------------------------------------------
(* detect_profanity, detect_sensitive_info, detect_verification *)

\* detect_profanity(text), text a string: the \w+ words of the lower-cased
\* text that are in profanity_list
detect_profanity(toks) ==
  LET Profane(w) == w \in profanity_list
  IN SelectSeq(LowerText(toks), Profane)

\* detect_sensitive_info(text), text a string: for every label whose pattern
\* matches the lower-cased text, in the order of the dict, the label and its
\* matches; the empty sequence stands for None
detect_sensitive_info(toks) ==
  LET low == LowerText(toks)
      Found(k) == SensitiveSearch(SensitiveLabels[k], low)
      hit == SelectSeq([k \in 1..Len(SensitiveLabels) |-> k], Found)
  IN [n \in 1..Len(hit) |->
        [label |-> SensitiveLabels[hit[n]],
         detected |-> SensitiveFindall(SensitiveLabels[hit[n]], low)]]

\* the flags kept on the instance: they start from what the last batch found
NoVerificationKept ==
  [key \in VerificationKeys |->
     \E id \in DOMAIN self_results : self_results[id].privacy_compliance.verification_done]

\* verification_done as detect_verification first builds it
NoVerification == [key \in VerificationKeys |-> FALSE]

\* the loop body with verification_done[key] = bool(pattern.search(text)): a
\* later Agent utterance that does not match resets the flag
VerifyEntryOverwrites(flags, entry) ==
  IF Lower(entry.speaker) # "agent" THEN Returned(flags)
  ELSE IF entry.text = Missing THEN Raised("KeyError")
  ELSE IF ~IsStr(entry.text) THEN Raised("AttributeError")
  ELSE Returned([key \in VerificationKeys |->
                   VerificationSearch(key, LowerText(entry.text.toks))])

\* one iteration of the loop of detect_verification on entry: the flags after
\* it, or the exception entry["text"].lower() raises
VerifyEntry(flags, entry) ==
  IF Lower(entry.speaker) # "agent" THEN Returned(flags)
  ELSE IF entry.text = Missing THEN Raised("KeyError")
  ELSE IF ~IsStr(entry.text) THEN Raised("AttributeError")
  ELSE Returned([key \in VerificationKeys |->
                   IF VerificationSearch(key, LowerText(entry.text.toks))
                   THEN TRUE ELSE flags[key]])

RECURSIVE VerifyFrom(_, _, _)
\* the loop of detect_verification from entry i on
VerifyFrom(conv, i, flags) ==
  IF i > Len(conv) THEN Returned(flags)
  ELSE LET step == VerifyEntry(flags, conv[i])
       IN IF step.raised # "" THEN step
          ELSE VerifyFrom(conv, i + 1, step.value)

\* detect_verification(conversation)
detect_verification(conv) == VerifyFrom(conv, 1, NoVerification)

---------------------------------------------------------------------------
(* analyze_silence_overtalk *)

Max(a, b) == IF a >= b THEN a ELSE b

RECURSIVE MinOf(_), MaxOf(_)
\* min() and max() of a non-empty sequence of numbers
MinOf(xs) ==
  IF Len(xs) = 1 THEN xs[1]
  ELSE LET m == MinOf(Tail(xs)) IN IF xs[1] <= m THEN xs[1] ELSE m
MaxOf(xs) ==
  IF Len(xs) = 1 THEN xs[1]
  ELSE LET m == MaxOf(Tail(xs)) IN IF xs[1] >= m THEN xs[1] ELSE m

\* stimes and etimes
Stimes(conv) == [i \in 1..Len(conv) |-> conv[i].stime.num]
Etimes(conv) == [i \in 1..Len(conv) |-> conv[i].etime.num]

\* (duration / total_duration) * 100: the float, kept as an exact fraction
Pct(duration, total) == [num |-> duration * 100, den |-> total]
\* the literal 0 of the degenerate record
PctZero == [num |-> 0, den |-> 1]

\* the record returned for an empty conversation or total_duration <= 0
DegenerateMetrics == [silence_pct |-> PctZero, overtalk_pct |-> PctZero]

RECURSIVE InsertByStime(_, _)
\* e put into sorted behind every entry whose stime is not larger (stable)
InsertByStime(sorted, e) ==
  IF sorted = <<>> THEN <<e>>
  ELSE IF Head(sorted).stime.num <= e.stime.num
       THEN <<Head(sorted)>> \o InsertByStime(Tail(sorted), e)
       ELSE <<e>> \o sorted

RECURSIVE SortedByStime(_)
\* sorted(conversation, key=lambda x: x["stime"])
SortedByStime(conv) ==
  IF conv = <<>> THEN <<>>
  ELSE InsertByStime(SortedByStime(SubSeq(conv, 1, Len(conv) - 1)), conv[Len(conv)])

\* the sweep with last_end = entry["etime"]: a nested utterance shrinks it
NextLastEndShrinks(last_end, entry) == entry.etime.num

\* last_end = max(last_end, entry["etime"])
NextLastEnd(last_end, entry) == Max(last_end, entry.etime.num)

RECURSIVE SilenceSweep(_, _, _, _)
\* the silence loop from entry i of the sorted conversation on
SilenceSweep(sorted, i, last_end, silence_duration) ==
  IF i > Len(sorted) THEN silence_duration
  ELSE LET entry == sorted[i]
           gap == IF entry.stime.num > last_end
                  THEN entry.stime.num - last_end ELSE 0
       IN SilenceSweep(sorted, i + 1, NextLastEnd(last_end, entry),
                       silence_duration + gap)

RECURSIVE Events(_)
\* events: (stime, 1) and (etime, -1) of every entry, in the order appended
Events(conv) ==
  IF conv = <<>> THEN <<>>
  ELSE Events(SubSeq(conv, 1, Len(conv) - 1))
       \o << <<conv[Len(conv)].stime.num, 1>>, <<conv[Len(conv)].etime.num, -1>> >>

\* the order of tuples (time, change)
EventLess(a, b) == a[1] < b[1] \/ (a[1] = b[1] /\ a[2] < b[2])

RECURSIVE InsertEvent(_, _)
InsertEvent(sorted, e) ==
  IF sorted = <<>> THEN <<e>>
  ELSE IF EventLess(e, Head(sorted)) THEN <<e>> \o sorted
       ELSE <<Head(sorted)>> \o InsertEvent(Tail(sorted), e)

RECURSIVE SortedEvents(_)
\* events.sort()
SortedEvents(events) ==
  IF events = <<>> THEN <<>>
  ELSE InsertEvent(SortedEvents(SubSeq(events, 1, Len(events) - 1)), events[Len(events)])

\* the sweep counting the time of a single speaker as overtalk
OvertalkAddFromOne(concurrent_speakers, time, prev_time) ==
  IF concurrent_speakers >= 1 THEN time - prev_time ELSE 0

\* what one event adds to overtalk_duration, before its change is applied
OvertalkAdd(concurrent_speakers, time, prev_time) ==
  IF concurrent_speakers > 1 THEN time - prev_time ELSE 0

RECURSIVE OvertalkSweep(_, _, _, _, _)
\* the overtalk loop from event i on
OvertalkSweep(events, i, concurrent_speakers, prev_time, overtalk_duration) ==
  IF i > Len(events) THEN overtalk_duration
  ELSE OvertalkSweep(events, i + 1, concurrent_speakers + events[i][2], events[i][1],
                     overtalk_duration
                       + OvertalkAdd(concurrent_speakers, events[i][1], prev_time))

\* analyze_silence_overtalk(conversation), every stime and etime a number
analyze_silence_overtalk(conv) ==
  IF conv = <<>> THEN DegenerateMetrics
  ELSE LET first_time == MinOf(Stimes(conv))
           last_time == MaxOf(Etimes(conv))
           total_duration == last_time - first_time
       IN IF total_duration <= 0 THEN DegenerateMetrics
          ELSE LET silence_duration == SilenceSweep(SortedByStime(conv), 1, first_time, 0)
                   overtalk_duration ==
                     OvertalkSweep(SortedEvents(Events(conv)), 1, 0, first_time, 0)
               IN [total_call_duration |-> total_duration,
                   silence_duration |-> silence_duration,
                   silence_pct |-> Pct(silence_duration, total_duration),
                   overtalk_duration |-> overtalk_duration,
                   overtalk_pct |-> Pct(overtalk_duration, total_duration)]

---------------------------------------------------------------------------
(* analyze_call *)

\* whether Python orders two time values (a number against a string, or
\* null against anything, raises TypeError)
Comparable(a, b) == a.tag = b.tag /\ a.tag \in {"num", "str"}

TimeField(entry, field) == IF field = "stime" THEN entry.stime ELSE entry.etime

RECURSIVE ScanRaises(_, _, _)
\* min(entry[field] for entry in conversation) from entry i on: the exception
\* it raises, "" when none
ScanRaises(conv, field, i) ==
  IF i > Len(conv) THEN ""
  ELSE LET v == TimeField(conv[i], field)
       IN IF v = Missing THEN "KeyError"
          ELSE IF i > 1 /\ ~Comparable(TimeField(conv[1], field), v) THEN "TypeError"
          ELSE ScanRaises(conv, field, i + 1)

\* the exception lines 112-114 of analyze_call raise, "" when none
TimesRaise(conv) ==
  IF conv = <<>> THEN "ValueError"
  ELSE LET s == ScanRaises(conv, "stime", 1)
           e == ScanRaises(conv, "etime", 1)
       IN IF s # "" THEN s
          ELSE IF e # "" THEN e
          ELSE IF conv[1].stime.tag = "num" /\ conv[1].etime.tag = "num" THEN ""
          ELSE "TypeError"

\* f"{key}_verification"
VerificationKeyOf(label) == label \o "_verification"

\* the check made against the call-level flag: any verification clears every label
MissingAnyVerification(verification_state, label) ==
  ~(\E key \in DOMAIN verification_state : verification_state[key])

\* not verification_state.get(f"{key}_verification", False)
MissingVerification(verification_state, label) ==
  LET key == VerificationKeyOf(label)
  IN ~(IF key \in DOMAIN verification_state THEN verification_state[key] ELSE FALSE)

\* the violations one Agent text adds: one per detected label whose
\* verification is missing, in the order of the dict
ViolationsOf(text, sensitive, verification_state) ==
  LET Flagged(s) == MissingVerification(verification_state, s.label)
      flagged == SelectSeq(sensitive, Flagged)
  IN [n \in 1..Len(flagged) |->
        [text |-> text.toks,
         sensitive_info |-> flagged[n].detected,
         missing_verification |-> flagged[n].label]]

\* result as analyze_call first builds it (lines 118-128)
InitialResult(conv, call_id, verification_state) ==
  [call_id |-> call_id,
   profanity |-> [agent |-> <<>>, customer |-> <<>>],
   privacy_compliance |->
     [verification_done |-> \E key \in DOMAIN verification_state : verification_state[key],
      sensitive_info_shared |-> FALSE,
      violations |-> <<>>],
   call_metrics |-> analyze_silence_overtalk(conv),
   total_duration |-> MaxOf(Etimes(conv)) - MinOf(Stimes(conv))]

\* one iteration of the loop of lines 130-150: the result after it, or the
\* exception it raises
AnalyzeEntry(res, entry, verification_state) ==
  LET speaker == Lower(entry.speaker)
      text == entry.text
  IN IF text = Missing THEN Raised("KeyError")
     ELSE IF ~IsStr(text) THEN Returned(res)
     ELSE LET profanity == detect_profanity(text.toks)
              sensitive == IF speaker = "agent" THEN detect_sensitive_info(text.toks)
                           ELSE <<>>
              withProfanity ==
                IF profanity = <<>> THEN res
                ELSE [res EXCEPT !.profanity[speaker] =
                        Append(@, [text |-> text.toks, profanity |-> profanity])]
          IN IF profanity # <<>> /\ speaker \notin {"agent", "customer"}
             THEN Raised("KeyError")
             ELSE IF sensitive = <<>> THEN Returned(withProfanity)
             ELSE Returned(
                    [withProfanity EXCEPT
                       !.privacy_compliance.sensitive_info_shared = TRUE,
                       !.privacy_compliance.violations =
                          @ \o ViolationsOf(text, sensitive, verification_state)])

RECURSIVE AnalyzeFrom(_, _, _, _)
\* the loop of lines 130-150 from entry i on
AnalyzeFrom(conv, i, res, verification_state) ==
  IF i > Len(conv) THEN Returned(res)
  ELSE LET step == AnalyzeEntry(res, conv[i], verification_state)
       IN IF step.raised # "" THEN step
          ELSE AnalyzeFrom(conv, i + 1, step.value, verification_state)

\* analyze_call from line 118 on, with the verification state of line 116
AnalyzeCallBody(conv, call_id, verification_state) ==
  AnalyzeFrom(conv, 1, InitialResult(conv, call_id, verification_state),
              verification_state)

\* analyze_call(conversation, call_id): what it returns or raises
analyze_call(conv, call_id) ==
  IF TimesRaise(conv) # "" THEN Raised(TimesRaise(conv))
  ELSE LET verification_state == detect_verification(conv)
       IN IF verification_state.raised # "" THEN verification_state
          ELSE AnalyzeCallBody(conv, call_id, verification_state.value)

---------------------------------------------------------------------------
(* The inputs of the model *)

\* an empty dict
EmptyDict == [k \in {} |-> NotCalled]

\* utterance i of a conversation of the compliance specification is spoken
\* from time i-1 to time i
Spoken(f) == [i \in 1..Len(f) |-> Utterance(f[i][1], f[i][2], JNum(i - 1), JNum(i))]

\* a conversation of utterances with the given <<stime, etime>> pairs
Timed(pairs) ==
  [i \in 1..Len(pairs) |-> Utterance("Agent", TextAskDOB, JNum(pairs[i][1]), JNum(pairs[i][2]))]

\* the worked examples: a gap, a nested utterance, two touching utterances
GapExample == Timed(<< <<0, 2>>, <<5, 8>> >>)
NestedExample == Timed(<< <<0, 10>>, <<3, 6>> >>)
TouchingExample == Timed(<< <<0, 5>>, <<5, 10>> >>)

\* conversations of the batch and repeated-call specifications
VerifiedCall ==
  <<Utterance("Agent", TextVerifyDOB, JNum(0), JNum(2)),
    Utterance("Agent", TextDOB, JNum(1), JNum(4))>>
SwearingCall ==
  <<Utterance("Agent", TextSSN, JNum(0), JNum(2)),
    Utterance("Customer", TextSwear, JNum(3), JNum(4))>>
EmptyCall == <<>>
NoStimeCall == <<Utterance("Agent", TextSSN, Missing, JNum(1))>>
TextTimeCall == <<Utterance("Customer", TextSwear, JStr(<<"noon">>), JNum(1))>>
NullTextCall == <<Utterance("Agent", JNull, JNum(0), JNum(1))>>

\* a file of the directory: JSON that does not parse, or a parsed conversation
CorruptFile == [corrupt |-> TRUE, conversation |-> <<>>]
JsonFile(conv) == [corrupt |-> FALSE, conversation |-> conv]

FileContents ==
  {CorruptFile, JsonFile(EmptyCall), JsonFile(NoStimeCall), JsonFile(TextTimeCall),
   JsonFile(VerifiedCall), JsonFile(SwearingCall)}

\* the conversations analyze_call is called on directly
SampleConversations == <<VerifiedCall, SwearingCall, NullTextCall, EmptyCall>>

---------------------------------------------------------------------------
(* The state machine *)

\* main(): call_id is the file name without ".json"
MainCallId == "conversation"

\* analyze_call, lines 112-116: the times, then detect_verification starts
AnalyzeCallEnter ==
  /\ pc = "ready"
  /\ IF TimesRaise(conversation) # ""
     THEN /\ pc' = "raised"
          /\ result' = Raised(TimesRaise(conversation))
          /\ UNCHANGED <<idx, verification_done>>
     ELSE /\ pc' = "verify"
          /\ idx' = 1
          /\ verification_done' = NoVerification
          /\ UNCHANGED result
  /\ UNCHANGED <<conversation, directory, pos, batch_results, self_results, call_log>>

\* detect_verification, lines 54-60: one iteration of the loop
DetectVerificationStep ==
  /\ pc = "verify"
  /\ idx <= Len(conversation)
  /\ LET step == VerifyEntry(verification_done, conversation[idx])
     IN IF step.raised # ""
        THEN /\ pc' = "raised"
             /\ result' = step
             /\ UNCHANGED <<idx, verification_done>>
        ELSE /\ verification_done' = step.value
             /\ idx' = idx + 1
             /\ UNCHANGED <<pc, result>>
  /\ UNCHANGED <<conversation, directory, pos, batch_results, self_results, call_log>>

\* detect_verification returns (line 62) and analyze_call runs lines 118-152
AnalyzeCallFinish ==
  /\ pc = "verify"
  /\ idx > Len(conversation)
  /\ result' = AnalyzeCallBody(conversation, MainCallId, verification_done)
  /\ pc' = IF result'.raised # "" THEN "raised" ELSE "returned"
  /\ UNCHANGED <<conversation, idx, verification_done,
                 directory, pos, batch_results, self_results, call_log>>

Init ==
  /\ \E n \in 0..MaxUtter : \E f \in [1..n -> Speakers \X Texts] :
        conversation = Spoken(f)
  /\ pc = "ready"
  /\ idx = 0
  /\ verification_done = [key \in VerificationKeys |-> FALSE]
  /\ result = NotCalled
  /\ directory = <<>>
  /\ pos = 0
  /\ batch_results = EmptyDict
  /\ self_results = EmptyDict
  /\ call_log = <<>>

Next == AnalyzeCallEnter \/ DetectVerificationStep \/ AnalyzeCallFinish

Spec == Init /\ [][Next]_vars

---------------------------------------------------------------------------
(* The timing specification: analyze_silence_overtalk called on its own *)

AnalyzeSilenceOvertalk ==
  /\ pc = "ready"
  /\ result' = Returned(analyze_silence_overtalk(conversation))
  /\ pc' = "returned"
  /\ UNCHANGED <<conversation, idx, verification_done,
                 directory, pos, batch_results, self_results, call_log>>

InitTiming ==
  /\ \/ \E n \in 0..MaxIv : \E f \in [1..n -> (0..MaxTime) \X (0..MaxTime)] :
           conversation = Timed(f)
     \/ conversation \in {GapExample, NestedExample, TouchingExample}
  /\ pc = "ready"
  /\ idx = 0
  /\ verification_done = [key \in VerificationKeys |-> FALSE]
  /\ result = NotCalled
  /\ directory = <<>>
  /\ pos = 0
  /\ batch_results = EmptyDict
  /\ self_results = EmptyDict
  /\ call_log = <<>>

NextTiming == AnalyzeSilenceOvertalk

SpecTiming == InitTiming /\ [][NextTiming]_vars

---------------------------------------------------------------------------
(* The batch specification: analyze_calls_from_json_directory *)

\* json_file.stem of file i
Stem(i) == "call" \o ToString(i)

\* lines 156-158: results = {} and the glob
BatchEnter ==
  /\ pc \in {"idle", "batch_returned", "batch_raised"}
  /\ pc' = "batch"
  /\ pos' = 1
  /\ batch_results' = EmptyDict
  /\ UNCHANGED <<conversation, idx, verification_done, result,
                 directory, self_results, call_log>>

\* lines 160-167: one file; only json.JSONDecodeError is caught, any other
\* exception leaves the function
BatchStep ==
  /\ pc = "batch"
  /\ pos <= Len(directory)
  /\ IF directory[pos].corrupt
     THEN /\ pos' = pos + 1
          /\ UNCHANGED <<pc, batch_results, result>>
     ELSE LET r == analyze_call(directory[pos].conversation, Stem(pos))
          IN IF r.raised # ""
             THEN /\ pc' = "batch_raised"
                  /\ result' = r
                  /\ UNCHANGED <<pos, batch_results>>
             ELSE /\ batch_results' = (Stem(pos) :> r.value) @@ batch_results
                  /\ pos' = pos + 1
                  /\ UNCHANGED <<pc, result>>
  /\ UNCHANGED <<conversation, idx, verification_done,
                 directory, self_results, call_log>>

\* lines 169-170: self.results = results; return results
BatchReturn ==
  /\ pc = "batch"
  /\ pos > Len(directory)
  /\ self_results' = batch_results
  /\ result' = Returned(batch_results)
  /\ pc' = "batch_returned"
  /\ UNCHANGED <<conversation, idx, verification_done,
                 directory, pos, batch_results, call_log>>

InitBatch ==
  /\ \E n \in 0..MaxFiles : directory \in [1..n -> FileContents]
  /\ pc = "idle"
  /\ conversation = <<>>
  /\ idx = 0
  /\ verification_done = [key \in VerificationKeys |-> FALSE]
  /\ result = NotCalled
  /\ pos = 0
  /\ batch_results = EmptyDict
  /\ self_results = EmptyDict
  /\ call_log = <<>>

NextBatch == BatchEnter \/ BatchStep \/ BatchReturn

SpecBatch == InitBatch /\ [][NextBatch]_vars

---------------------------------------------------------------------------
(* The repeated-call specification: analyze_call and the batch runner called
   on one CallAnalyzer instance in any order *)

DirectCallIds == {"call1", "conversation"}

\* analyze_call(conversation, call_id) called on the instance; the call, the
\* keys of self.results at the call and its outcome are logged
DirectCall ==
  /\ pc \in {"idle", "batch_returned", "batch_raised"}
  /\ Len(call_log) < MaxCalls
  /\ \E c \in 1..Len(SampleConversations) : \E id \in DirectCallIds :
        call_log' = Append(call_log,
                           [conv |-> c, call_id |-> id,
                            stored |-> DOMAIN self_results,
                            outcome |-> analyze_call(SampleConversations[c], id)])
  /\ UNCHANGED <<conversation, pc, idx, verification_done, result,
                 directory, pos, batch_results, self_results>>

InitRepeat ==
  /\ directory = <<JsonFile(VerifiedCall), CorruptFile, JsonFile(SwearingCall)>>
  /\ pc = "idle"
  /\ conversation = <<>>
  /\ idx = 0
  /\ verification_done = [key \in VerificationKeys |-> FALSE]
  /\ result = NotCalled
  /\ pos = 0
  /\ batch_results = EmptyDict
  /\ self_results = EmptyDict
  /\ call_log = <<>>

NextRepeat == BatchEnter \/ BatchStep \/ BatchReturn \/ DirectCall

SpecRepeat == InitRepeat /\ [][NextRepeat]_vars

---------------------------------------------------------------------------
(* Properties of the timing analyzer (SpecTiming) *)

\* the utterances active during the unit of time [t, t+1)
ActiveAt(conv, t) ==
  {i \in 1..Len(conv) : conv[i].stime.num <= t /\ t < conv[i].etime.num}

\* the units of time of the span [min stime, max etime)
SpanUnits(conv) == MinOf(Stimes(conv)) .. (MaxOf(Etimes(conv)) - 1)

\* the length of the span no utterance covers
UncoveredLength(conv) == Cardinality({t \in SpanUnits(conv) : ActiveAt(conv, t) = {}})

\* the length of the span two or more utterances cover
OverlapLength(conv) ==
  Cardinality({t \in SpanUnits(conv) : Cardinality(ActiveAt(conv, t)) >= 2})

\* non-empty, every etime >= stime, total_duration > 0
WellTimed(conv) ==
  /\ conv # <<>>
  /\ \A i \in 1..Len(conv) : conv[i].etime.num >= conv[i].stime.num
  /\ MaxOf(Etimes(conv)) - MinOf(Stimes(conv)) > 0

\* C3: for a non-empty conversation with every etime >= stime and a positive
\* total duration, silence_duration is the length of the part of
\* [min stime, max etime] that no utterance covers, whatever the order and the
\* overlaps; [0,2) and [5,8) give 3 of a total of 8, [0,10) and [3,6) give 0
C3_SilenceIsUncoveredTime ==
  (pc = "returned" /\ WellTimed(conversation)) =>
     /\ result.value.silence_duration = UncoveredLength(conversation)
     /\ result.value.total_call_duration
          = MaxOf(Etimes(conversation)) - MinOf(Stimes(conversation))
     /\ conversation = GapExample =>
          result.value.silence_duration = 3 /\ result.value.total_call_duration = 8
     /\ conversation = NestedExample => result.value.silence_duration = 0

\* a conversation given out of order, with a nested utterance and a gap, analyzed
C3_Witness ==
  /\ pc = "returned" /\ WellTimed(conversation)
  /\ Len(conversation) = 3
  /\ conversation[1].stime.num > conversation[2].stime.num
  /\ \E i, j \in 1..3 :
        /\ conversation[j].stime.num < conversation[i].stime.num
        /\ conversation[i].etime.num < conversation[j].etime.num
  /\ result.value.silence_duration >= 1

\* C4: for a non-empty conversation with every etime >= stime and a positive
\* total duration, overtalk_duration is the length of time during which two or
\* more utterances are active, also when start and end events share a time
\* stamp; [0,10) and [3,6) give 3, [0,5) and [5,10) give 0
C4_OvertalkIsOverlapTime ==
  (pc = "returned" /\ WellTimed(conversation)) =>
     /\ result.value.overtalk_duration = OverlapLength(conversation)
     /\ conversation = NestedExample => result.value.overtalk_duration = 3
     /\ conversation = TouchingExample => result.value.overtalk_duration = 0

\* three utterances analyzed, one ending when another starts, two overlapping
C4_Witness ==
  /\ pc = "returned" /\ WellTimed(conversation)
  /\ Len(conversation) = 3
  /\ \E i, j \in 1..3 :
        /\ i # j
        /\ conversation[i].etime.num = conversation[j].stime.num
        /\ conversation[i].stime.num < conversation[i].etime.num
        /\ conversation[j].stime.num < conversation[j].etime.num
  /\ result.value.overtalk_duration >= 1

\* the keys of the metrics record
MetricKeys ==
  {"total_call_duration", "silence_duration", "silence_pct",
   "overtalk_duration", "overtalk_pct"}

\* C5: when total_duration (max etime - min stime) is <= 0 the metrics record
\* holds all of total duration, silence_duration, silence_pct,
\* overtalk_duration and overtalk_pct, each zero
C5_DegenerateRecordIsComplete ==
  (/\ pc = "returned"
   /\ conversation # <<>>
   /\ MaxOf(Etimes(conversation)) - MinOf(Stimes(conversation)) <= 0) =>
     /\ MetricKeys \subseteq DOMAIN result.value
     /\ result.value.total_call_duration = 0
     /\ result.value.silence_duration = 0
     /\ result.value.overtalk_duration = 0
     /\ result.value.silence_pct.num = 0
     /\ result.value.overtalk_pct.num = 0

---------------------------------------------------------------------------
(* Properties of the compliance check (Spec) *)

\* the labels whose f"{label}_verification" is a verification category
MappedLabels == {"SSN", "DOB", "Address"}
\* the labels of sensitive_patterns with no verification category
UnmappedLabels == {"Account", "Balance", "Credit Card", "Phone"}

IsAgent(entry) == Lower(entry.speaker) = "agent"

\* the Agent utterance entry discloses label
AgentDiscloses(entry, label) ==
  /\ IsAgent(entry) /\ IsStr(entry.text)
  /\ SensitiveSearch(label, LowerText(entry.text.toks))

\* the Agent utterance entry matches the verification pattern key
AgentVerifies(entry, key) ==
  /\ IsAgent(entry) /\ IsStr(entry.text)
  /\ VerificationSearch(key, LowerText(entry.text.toks))

\* some Agent utterance among the first n matches the verification pattern key
AgentVerifiedWithin(conv, n, key) == \E i \in 1..n : AgentVerifies(conv[i], key)

\* the entries of the violations list for the text toks and label
ViolationEntries(violations, toks, label) ==
  {n \in 1..Len(violations) :
     violations[n].text = toks /\ violations[n].missing_verification = label}

\* the Agent utterances with the text toks that disclose label
Disclosures(conv, toks, label) ==
  {i \in 1..Len(conv) : AgentDiscloses(conv[i], label) /\ conv[i].text.toks = toks}

C2_UnmappedLabelNeverFlagged ==
  pc = "returned" =>
    LET privacy == result.value.privacy_compliance
    IN /\ (\E i \in 1..Len(conversation) : \E label \in UnmappedLabels :
              AgentDiscloses(conversation[i], label))
            => privacy.sensitive_info_shared
       /\ \A n \in 1..Len(privacy.violations) :
            privacy.violations[n].missing_verification \notin UnmappedLabels

\* the conversation with every absent or non-string text replaced by ""
WithEmptyTexts(conv) ==
  [i \in 1..Len(conv) |->
     IF IsStr(conv[i].text) THEN conv[i] ELSE [conv[i] EXCEPT !.text = JStr(<<>>)]]

\* C6: analyze_call returns a result for every non-empty conversation, also
\* when a text is absent or not a string: such a text is treated as the empty
\* text and the other utterances are analyzed as usual
C6_NonStringTextTolerated ==
  (pc \in {"returned", "raised"} /\ conversation # <<>>) =>
     /\ result.raised = ""
     /\ result.value = analyze_call(WithEmptyTexts(conversation), MainCallId).value

\* the Agent asks "can you confirm your date of birth", then discloses a date
AskThenDisclose == Spoken(<< <<"Agent", TextAskDOB>>, <<"Agent", TextDOB>> >>)

\* C8: for an Agent "can you confirm your date of birth" followed by an Agent
\* date-of-birth disclosure, verification_done is true and the disclosure is
\* not listed as a violation
C8_AskedDOBCountsAsVerification ==
  (pc = "returned" /\ conversation = AskThenDisclose) =>
     /\ result.value.privacy_compliance.verification_done
     /\ \A n \in 1..Len(result.value.privacy_compliance.violations) :
          result.value.privacy_compliance.violations[n].missing_verification # "DOB"

\* during the pass, a flag is true exactly when an Agent utterance already
\* passed matched its pattern
C10_FlagsAreAgentMatches ==
  pc = "verify" =>
    \A key \in VerificationKeys :
      verification_done[key] = AgentVerifiedWithin(conversation, idx - 1, key)

\* one iteration of the pass: no flag is reset, a Customer utterance changes
\* none, and a flag is set only by an Agent utterance that matches its pattern
C10_StepKeepsFlags ==
  (pc = "verify" /\ pc' = "verify" /\ idx' = idx + 1) =>
    /\ \A key \in VerificationKeys :
         /\ verification_done[key] => verification_done'[key]
         /\ (~verification_done[key] /\ verification_done'[key])
              => AgentVerifies(conversation[idx], key)
    /\ ~IsAgent(conversation[idx]) => verification_done' = verification_done

\* C10: in the detect_verification pass every flag starts false, is set only
\* when an Agent utterance matches its category's pattern and then stays true;
\* Customer utterances change no flag; the final flag is true exactly when some
\* Agent utterance matched
C10_VerificationFlagsMonotonic ==
  []C10_FlagsAreAgentMatches /\ [][C10_StepKeepsFlags]_vars

\* the pass is over: the Agent matched the DOB pattern, the Customer then said
\* an SSN verification phrase, and only the DOB flag is set
C10_Witness ==
  /\ pc = "verify" /\ idx > Len(conversation)
  /\ Len(conversation) = 2
  /\ AgentVerifies(conversation[1], "DOB_verification")
  /\ ~IsAgent(conversation[2])
  /\ conversation[2].text = TextVerifySSN
  /\ verification_done["DOB_verification"]
  /\ ~verification_done["SSN_verification"]

---------------------------------------------------------------------------
(* Properties of the batch runner (SpecBatch) and of repeated calls (SpecRepeat) *)

\* the file holds a conversation that is not malformed: it is not empty and
\* every time is there and a number
WellFormedFile(file) == ~file.corrupt /\ TimesRaise(file.conversation) = ""

\* C7: in a batch run a malformed conversation (empty, a required field
\* missing, a time that is not a number) is skipped, and every other
\* conversation of the batch, before or after it, has its analysis in the
\* returned results
C7_MalformedConversationSkipped ==
  pc \in {"batch_returned", "batch_raised"} =>
     /\ pc = "batch_returned"
     /\ \A i \in 1..Len(directory) :
          WellFormedFile(directory[i]) =>
             /\ Stem(i) \in DOMAIN self_results
             /\ self_results[Stem(i)]
                  = analyze_call(directory[i].conversation, Stem(i)).value

\* two outcomes of analyze_call are equal
SameOutcome(a, b) ==
  /\ a.raised = b.raised
  /\ a.raised = "" => a.value = b.value

====
